---- MODULE Spec2Model ----
(***************************************************************************)
(* Spatial-CAPTCHA API: the authorization-and-session protocol of the two  *)
(* servers of the repository.                                              *)
(*                                                                         *)
(*   build = "v2" : src/unnamed/part_000 (v2.0, TTL caches, pass tokens,   *)
(*                  siteverify)                                            *)
(*   build = "v1" : src/index.js (v1.0, plain sessionStore object)         *)
(*                                                                         *)
(* Node.js runs one handler segment at a time: a segment runs from an      *)
(* await's resumption to the next await (or to the end of the handler).    *)
(* Every action below is one such segment, so every interleaving of        *)
(* in-flight requests at their awaits is a behaviour of the model.         *)
(*                                                                         *)
(* Rotations are whole degrees about one axis (y = z = 0); the clock is in *)
(* seconds.                                                                *)
(***************************************************************************)
EXTENDS Integers, FiniteSets

\* ------------------------------------------------------------- bounds
MaxReq == 2
MaxSessions == 2
MaxTicks == 1
TickSeconds == 400
MaxCount == 2

\* ------------------------------------------------- program constants
FREE_TIER_QUOTA == 1000
SessionTTL == 300
PassTokenTTL == 180
toleranceDegrees == 45
toleranceDegreesV1 == 35

\* ---------------------------------------------------------- the data
Slots == 1..MaxReq
SessionIds == 1..MaxSessions
TokenIds == 1..MaxSessions
Tenants == {1, 2}
\* X-API-Key / secret_key values: 0 is "absent", 1 and 2 are the tenants'
\* keys, 3 is a key no tenant has.
Keys == {0, 1, 2, 3}
\* Origin header values; tenant i lists origin i only.
Origins == {1, 2}
\* randFloat(-90, 90) for the first component, in degrees.
TargetRotations == {30}
\* user_rotation.x in degrees; NoRotation is a body without user_rotation.
NoRotation == 999
UserRotations == {30, 75, NoRotation}

\* The customers table: the columns the handlers read, besides usage_count.
plan(t) == IF t = 1 THEN "free" ELSE "pro"
allowed_domain(t) == {t}
lookupByApiKey(k) == IF k \in Tenants THEN k ELSE 0
lookupBySecretKey(k) == IF k \in Tenants THEN k ELSE 0

VARIABLES
  build,            \* which server runs: "v1" (index.js) or "v2" (part_000)
  models,           \* number of rows of the models table
  usage_count,      \* customers.usage_count, committed value, per tenant
  rowLock,          \* per tenant: the slot whose open transaction updated the row, or 0
  sessionCache,     \* v2: key -> [v: target rotation, t: expiry time, c: time stored]
  passTokenCache,   \* v2: key -> [v: token data, t: expiry time, c: time stored]
  sessionStore,     \* v1: key -> target rotation
  now,              \* Date.now(), seconds
  nextSession,      \* session ids generated so far (uuidv4 is fresh each time)
  nextToken,        \* pass tokens generated so far
  req,              \* per slot: the request in flight, or the latest one ended
  usage0,           \* history: usage_count at start
  commits,          \* history: per tenant, COMMITs of create transactions
  found,            \* history: per session id, verify requests that found it
  redeemed          \* history: per token, siteverify requests answered success=true

vars == <<build, models, usage_count, rowLock, sessionCache, passTokenCache,
          sessionStore, now, nextSession, nextToken, req, usage0, commits,
          found, redeemed>>

store == <<sessionCache, passTokenCache, sessionStore, nextSession, nextToken,
           found, redeemed>>
db == <<usage_count, rowLock, commits>>
env == <<build, models, now, usage0>>

\* A request slot. In flight: the route (kind), the position (pc), the
\* headers once read (apiKey, origin) and what the handler holds across
\* awaits: row and seen (the customers row the gate read and its
\* usage_count), sid (create's sessionId), tx (the state of its database
\* transaction), newUsage (the value its UPDATE wrote, not yet committed).
\* The headers and the body are arbitrary: each is drawn where the code first
\* uses its value.
\* Ended (pc = "done"): the inputs that decided the outcome (apiKey, origin,
\* row, seen for a request the gate rejected; secret; sid: verify's
\* session_id; token: siteverify's pass_token) and the response: status (0:
\* the request ended without a response), gate (the gate's verdict), msg, ok
\* (verified / success), angle (error_angle), sid (create's session_id),
\* token (verify's pass_token). found: verify read the session; expired: the
\* cache found the entry expired during the lookup (its "expired" event).
Idle ==
  [kind |-> "none", pc |-> "idle", apiKey |-> 0, origin |-> 0, secret |-> 0,
   sid |-> 0, token |-> 0, row |-> 0, seen |-> 0, status |-> 0, gate |-> "",
   msg |-> "", ok |-> FALSE, angle |-> -1, found |-> FALSE, expired |-> FALSE,
   tx |-> "none", newUsage |-> 0]

Done(kind) == [Idle EXCEPT !.kind = kind, !.pc = "done"]

IsFree(x) == req[x].pc \in {"idle", "done"}

\* Request r goes on (or arrives) as record q.
Goes(r, q) == [req EXCEPT ![r] = q]

\* Request r ends as record q. Only the latest request ended is kept.
Ends(r, q) == [x \in Slots |-> IF x = r THEN q
                                ELSE IF req[x].pc = "done" THEN Idle ELSE req[x]]

\* -------------------------------------------- the expiring key-value store
\* node-cache: set stores the value with t = now + stdTTL (t = 0: no expiry);
\* get answers the value unless the entry is absent or expired (t # 0 and
\* t < now), and deletes an entry it finds expired; del removes; the periodic
\* check deletes every expired entry. c is the time of the set, kept for the
\* record.
EmptyCache == [k \in {} |-> 0]

CacheSet(cache, key, value, ttl) ==
  [k \in DOMAIN cache \cup {key} |->
     IF k = key
     THEN [v |-> value, t |-> IF ttl = 0 THEN 0 ELSE now + ttl, c |-> now]
     ELSE cache[k]]

CacheDel(cache, key) ==
  [k \in DOMAIN cache \ {key} |-> cache[k]]

CacheExpired(cache, key) ==
  key \in DOMAIN cache /\ cache[key].t # 0 /\ cache[key].t < now

CacheHit(cache, key) ==
  key \in DOMAIN cache /\ ~CacheExpired(cache, key)

CacheAfterGet(cache, key) ==
  IF CacheExpired(cache, key) THEN CacheDel(cache, key) ELSE cache

CacheAfterCheck(cache) ==
  [k \in {x \in DOMAIN cache : ~CacheExpired(cache, x)} |-> cache[k]]

\* ------------------------------------------------ orientation comparator
Abs(x) == IF x < 0 THEN -x ELSE x

\* Quaternion.angleTo of two rotations about the same axis, in degrees:
\* 2 * acos(|q1 . q2|), the shortest arc, in [0, 180].
AngleTo(a, b) ==
  LET d == Abs(a - b) % 360
  IN  IF d > 180 THEN 360 - d ELSE d

\* Faulty variant of the tolerance test: the boundary passes.
WithinTolerance_Inclusive(angleDegrees) == angleDegrees <= toleranceDegrees

WithinTolerance(angleDegrees) == angleDegrees < toleranceDegrees

WithinToleranceV1(angleDegrees) == angleDegrees < toleranceDegreesV1

\* ------------------------------------------------------------------ Init
\* The free tenant is one challenge short of its quota; the other tenant's
\* usage is at the quota already.
Init ==
  /\ build \in {"v1", "v2"}
  /\ models \in {0, 1}
  /\ usage_count = [t \in Tenants |-> IF t = 1 THEN FREE_TIER_QUOTA - 1
                                                 ELSE FREE_TIER_QUOTA]
  /\ usage0 = usage_count
  /\ rowLock = [t \in Tenants |-> 0]
  /\ sessionCache = EmptyCache
  /\ passTokenCache = EmptyCache
  /\ sessionStore = EmptyCache
  /\ now = 0
  /\ nextSession = 0
  /\ nextToken = 0
  /\ req = [r \in Slots |-> Idle]
  /\ commits = [t \in Tenants |-> 0]
  /\ found = [s \in SessionIds |-> 0]
  /\ redeemed = [k \in TokenIds |-> 0]

\* ------------------------------------------------------- request arrival
\* Slots are interchangeable: a request takes the first free one.
Free(r) ==
  /\ IsFree(r)
  /\ \A x \in Slots : x < r => ~IsFree(x)

PreSession == {"gate_query", "gate_resume", "connect", "begin", "select"}

\* Creates in flight that have not generated their session id yet.
CreatesPending ==
  Cardinality({x \in Slots : req[x].kind = "create" /\ req[x].pc \in PreSession})

\* The gate's first segment for /create and /verify (in v1, for every
\* route): the API key must be present; then the customers row is queried.
ReceiveGated(r) ==
  /\ Free(r)
  /\ \E kind \in {"create", "verify"}, hasKey \in BOOLEAN :
       /\ kind = "create" => nextSession + CreatesPending < MaxSessions
       /\ req' = IF hasKey
                 THEN Goes(r, [Idle EXCEPT !.kind = kind, !.pc = "gate_query"])
                 ELSE Ends(r, [Done(kind) EXCEPT !.gate = "MissingApiKey",
                                                 !.status = 401])
  /\ UNCHANGED <<store, db, env>>

\* Faulty variant of the gate's first lines: /siteverify is not exempted.
SkipsGate_Never(path) == FALSE

\* The gate's first lines in v2: /siteverify is passed on unchecked.
SkipsGate(path) == path = "siteverify"

\* Faulty variant of siteverify's first segment: the token named is consumed
\* before the parameters are checked.
ReceiveSiteverify_Consumes(r) ==
  /\ build = "v2"
  /\ Free(r)
  /\ \E hasKey \in BOOLEAN, secret_key \in {0, 1}, pass_token \in {0} \cup TokenIds :
       LET q == [Done("siteverify") EXCEPT !.apiKey = IF hasKey THEN 1 ELSE 0]
       IN  /\ passTokenCache' = CacheDel(passTokenCache, pass_token)
           /\ req' = IF secret_key = 0 \/ pass_token = 0
                     THEN Ends(r, [q EXCEPT
                                     !.secret = secret_key, !.token = pass_token,
                                     !.msg = "MissingParameters", !.status = 400])
                     ELSE Goes(r, [Idle EXCEPT !.kind = "siteverify",
                                               !.pc = "sv_query",
                                               !.apiKey = IF hasKey THEN 1 ELSE 0])
  /\ UNCHANGED <<sessionCache, sessionStore, nextSession, nextToken, found,
                 redeemed, db, env>>

\* /siteverify (v2): the gate passes it on without reading its headers (an
\* X-API-Key header may be there or not: apiKey 1 or 0); the handler's first
\* segment checks that both parameters are present (secret_key: 1 present, 0
\* absent; pass_token: the token named, 0 absent) and queries the customers
\* table by secret_key.
ReceiveSiteverify(r) ==
  /\ build = "v2"
  /\ Free(r)
  /\ \E hasKey \in BOOLEAN, secret_key \in {0, 1}, pass_token \in {0} \cup TokenIds :
       LET q == [Done("siteverify") EXCEPT !.apiKey = IF hasKey THEN 1 ELSE 0]
       IN  req' = IF ~SkipsGate("siteverify") /\ ~hasKey
                  THEN Ends(r, [q EXCEPT !.gate = "MissingApiKey", !.status = 401])
                  ELSE IF secret_key = 0 \/ pass_token = 0
                  THEN Ends(r, [q EXCEPT
                                  !.secret = secret_key, !.token = pass_token,
                                  !.msg = "MissingParameters", !.status = 400])
                  ELSE Goes(r, [Idle EXCEPT !.kind = "siteverify",
                                            !.pc = "sv_query",
                                            !.apiKey = IF hasKey THEN 1 ELSE 0])
  /\ UNCHANGED <<store, db, env>>

\* --------------------------------------------------------------- the gate
\* SELECT * FROM customers WHERE api_key = $1, as the database executes it:
\* the row read is the committed one of that moment (seen: its usage_count,
\* which the gate reads for a free plan only). A failing query is caught and
\* answered 500.
GateQuery(r) ==
  /\ req[r].pc = "gate_query"
  /\ \/ \E apiKey \in Keys \ {0}, origin \in Origins :
          LET c == lookupByApiKey(apiKey)
          IN  req' = Goes(r, [req[r] EXCEPT
                        !.pc = "gate_resume", !.apiKey = apiKey,
                        !.origin = origin, !.row = c,
                        !.seen = IF c # 0 /\ plan(c) = "free"
                                 THEN usage_count[c] ELSE 0])
     \/ req' = Ends(r, [Done(req[r].kind) EXCEPT !.gate = "error", !.status = 500])
  /\ UNCHANGED <<store, db, env>>

\* Faulty variant of the gate's checks: the quota is checked before the origin.
GateDecision_QuotaFirst(row, origin, seen) ==
  IF row = 0 THEN "InvalidApiKey"
  ELSE IF plan(row) = "free" /\ seen >= FREE_TIER_QUOTA THEN "QuotaExceeded"
  ELSE IF origin \notin allowed_domain(row) THEN "OriginNotAllowed"
  ELSE "pass"

\* Faulty variant of the gate's checks: the quota test is off by one.
GateDecision_OffByOne(row, origin, seen) ==
  IF row = 0 THEN "InvalidApiKey"
  ELSE IF origin \notin allowed_domain(row) THEN "OriginNotAllowed"
  ELSE IF plan(row) = "free" /\ seen > FREE_TIER_QUOTA THEN "QuotaExceeded"
  ELSE "pass"

\* The checks after the query, in the code's order.
GateDecision(row, origin, seen) ==
  IF row = 0 THEN "InvalidApiKey"
  ELSE IF origin \notin allowed_domain(row) THEN "OriginNotAllowed"
  ELSE IF plan(row) = "free" /\ seen >= FREE_TIER_QUOTA THEN "QuotaExceeded"
  ELSE "pass"

GateStatus(verdict) == IF verdict = "QuotaExceeded" THEN 429 ELSE 401

\* Faulty variant of the gate: the quota is checked for /create only.
GateVerdict_QuotaForCreateOnly(r) ==
  GateDecision(req[r].row, req[r].origin,
               IF req[r].kind = "create" THEN req[r].seen ELSE 0)

GateVerdict(r) == GateDecision(req[r].row, req[r].origin, req[r].seen)

GateReject(r) ==
  /\ req[r].pc = "gate_resume"
  /\ GateVerdict(r) # "pass"
  /\ req' = Ends(r, [req[r] EXCEPT !.pc = "done", !.gate = GateVerdict(r),
                                   !.status = GateStatus(GateVerdict(r))])
  /\ UNCHANGED <<store, db, env>>

\* Step 4 for /create: req.customer_api_key is set and the handler starts; its
\* first await is pool.connect().
GatePassCreate(r) ==
  /\ req[r].pc = "gate_resume"
  /\ req[r].kind = "create"
  /\ GateVerdict(r) = "pass"
  /\ req' = Goes(r, [req[r] EXCEPT !.pc = "connect", !.gate = "pass"])
  /\ UNCHANGED <<store, db, env>>

\* ----------------------------------------------------------------- create
\* create's record once it has ended.
Created(r) ==
  [Done("create") EXCEPT !.row = req[r].row, !.gate = "pass", !.tx = req[r].tx]

\* The status of a request whose async handler rejects. The handler's promise
\* is the framework's to handle, and the repository does not pin the
\* framework's version: Express 4 ignores the promise and nothing is sent
\* (0); Express 5 hands the rejection to its error handler, which answers 500.
UnhandledStatus == {0, 500}

\* pool.connect() is awaited outside the try block: its rejection is caught
\* by nobody in the handler.
CreateConnect(r) ==
  /\ req[r].pc = "connect"
  /\ \/ req' = Goes(r, [req[r] EXCEPT !.pc = "begin"])
     \/ \E status \in UnhandledStatus :
          req' = Ends(r, [Created(r) EXCEPT !.msg = "unhandled", !.status = status])
  /\ UNCHANGED <<store, db, env>>

CreateBegin(r) ==
  /\ req[r].pc = "begin"
  /\ \/ req' = Goes(r, [req[r] EXCEPT !.pc = "select", !.tx = "open"])
     \/ req' = Goes(r, [req[r] EXCEPT !.pc = "rollback"])
  /\ UNCHANGED <<store, db, env>>

\* The value create stores for a new session: v2 draws the target rotation;
\* v1's draft stores an empty object, which Euler reads as (0, 0, 0).
NewTargets == IF build = "v2" THEN TargetRotations ELSE {0}

\* Faulty variant of the session's storage: the entry never expires.
StoreSession_NoExpiry(cache, sessionId, targetRotation) ==
  CacheSet(cache, sessionId, targetRotation, 0)

\* Where create stores the session (step 4 of the handler).
StoreSession(cache, sessionId, targetRotation) ==
  CacheSet(cache, sessionId, targetRotation, SessionTTL)

\* The models query returns; an empty catalog throws. Otherwise the session
\* id and the target are generated, the session is stored and the usage
\* UPDATE is issued.
CreateSelect(r) ==
  /\ req[r].pc = "select"
  /\ \/ \* the query fails, or returns no row and the handler throws
        /\ req' = Goes(r, [req[r] EXCEPT !.pc = "rollback"])
        /\ UNCHANGED store
     \/ /\ models > 0
        /\ nextSession < MaxSessions
        /\ \E targetRotation \in NewTargets :
             LET sessionId == nextSession + 1
             IN  /\ nextSession' = sessionId
                 /\ IF build = "v2"
                    THEN /\ sessionCache' =
                              StoreSession(sessionCache, sessionId, targetRotation)
                         /\ UNCHANGED sessionStore
                    ELSE /\ sessionStore' =
                              [k \in DOMAIN sessionStore \cup {sessionId} |->
                                 IF k = sessionId THEN targetRotation
                                 ELSE sessionStore[k]]
                         /\ UNCHANGED sessionCache
                 /\ req' = Goes(r, [req[r] EXCEPT !.pc = "update", !.sid = sessionId])
        /\ UNCHANGED <<passTokenCache, nextToken, found, redeemed>>
  /\ UNCHANGED <<db, env>>

\* UPDATE customers SET usage_count = usage_count + 1: the value the
\* statement writes, from the row's committed value.
UpdateUsage(current) == current + 1

\* Faulty variant of the UPDATE: the increment is computed from a value read
\* without waiting for the transaction that holds the row (a read followed by
\* a write of the sum, in place of the single UPDATE statement).
CreateUpdate_NoRowLock(r) ==
  /\ req[r].pc = "update"
  /\ req' = Goes(r, [req[r] EXCEPT
                       !.pc = "commit", !.tx = "updated",
                       !.newUsage = UpdateUsage(usage_count[req[r].row])])
  /\ UNCHANGED <<db, store, env>>

\* The UPDATE as the database executes it: it waits while another open
\* transaction holds the row, then reads the committed value and writes the
\* new one, visible to others at COMMIT.
CreateUpdate(r) ==
  /\ req[r].pc = "update"
  /\ LET c == req[r].row
     IN  \/ /\ rowLock[c] = 0
            /\ rowLock' = [rowLock EXCEPT ![c] = r]
            /\ req' = Goes(r, [req[r] EXCEPT
                                 !.pc = "commit", !.tx = "updated",
                                 !.newUsage = UpdateUsage(usage_count[c])])
            /\ UNCHANGED <<usage_count, commits>>
         \/ /\ req' = Goes(r, [req[r] EXCEPT !.pc = "rollback"])
            /\ UNCHANGED db
  /\ UNCHANGED <<store, env>>

\* Faulty variant of the end of create: the 201 response does not wait for the
\* outcome of COMMIT.
CreateCommit_RespondFirst(r) ==
  /\ req[r].pc = "commit"
  /\ LET c == req[r].row
     IN  /\ \/ /\ usage_count' = [usage_count EXCEPT ![c] = req[r].newUsage]
               /\ commits' = [commits EXCEPT ![c] = @ + 1]
            \/ UNCHANGED <<usage_count, commits>>
         /\ rowLock' = [rowLock EXCEPT ![c] = 0]
         /\ req' = Ends(r, [Created(r) EXCEPT !.status = 201, !.sid = req[r].sid])
  /\ UNCHANGED <<store, env>>

\* COMMIT, then the 201 response with the session id (the handler's next
\* segment, which touches nothing shared).
CreateCommit(r) ==
  /\ req[r].pc = "commit"
  /\ LET c == req[r].row
     IN  \/ /\ usage_count' = [usage_count EXCEPT ![c] = req[r].newUsage]
            /\ rowLock' = [rowLock EXCEPT ![c] = 0]
            /\ commits' = [commits EXCEPT ![c] = @ + 1]
            /\ req' = Ends(r, [Created(r) EXCEPT !.tx = "committed", !.status = 201,
                                                 !.sid = req[r].sid])
         \/ /\ req' = Goes(r, [req[r] EXCEPT !.pc = "rollback"])
            /\ UNCHANGED db
  /\ UNCHANGED <<store, env>>

\* Faulty variant of the catch block: the transaction is ended with COMMIT, so
\* an increment already written is applied.
CreateRollback_Commits(r) ==
  /\ req[r].pc = "rollback"
  /\ rowLock' = [t \in Tenants |-> IF rowLock[t] = r THEN 0 ELSE rowLock[t]]
  /\ usage_count' = IF req[r].tx = "updated"
                    THEN [usage_count EXCEPT ![req[r].row] = req[r].newUsage]
                    ELSE usage_count
  /\ req' = Ends(r, [Created(r) EXCEPT
                       !.tx = IF req[r].tx = "none" THEN "none" ELSE "aborted",
                       !.msg = "Create", !.status = 500])
  /\ UNCHANGED <<commits, store, env>>

\* The catch block: ROLLBACK, then the 500 response. The transaction ends
\* either way; a ROLLBACK that throws leaves the catch block before the
\* response is sent.
CreateRollback(r) ==
  /\ req[r].pc = "rollback"
  /\ rowLock' = [t \in Tenants |-> IF rowLock[t] = r THEN 0 ELSE rowLock[t]]
  /\ \E dbOk \in BOOLEAN, status \in UnhandledStatus :
       req' = Ends(r, [Created(r) EXCEPT
                         !.tx = IF req[r].tx = "none" THEN "none" ELSE "aborted",
                         !.msg = IF dbOk THEN "Create" ELSE "unhandled",
                         !.status = IF dbOk THEN 500 ELSE status])
  /\ UNCHANGED <<usage_count, commits, store, env>>

\* ----------------------------------------------------------------- verify
Bump(n) == IF n < MaxCount THEN n + 1 ELSE n

\* Faulty variant of step 2 of verify: the session stays in the cache.
BurnSession_Keep(cache, session_id) == cache

\* Step 2 of verify: the session cache after a lookup that found the session.
BurnSession(cache, session_id) == CacheDel(cache, session_id)

\* Faulty variant of verify in v2: the session is deleted after the angle is
\* computed, so not when the computation throws.
GatePassVerify_BurnLast(r) ==
  /\ build = "v2"
  /\ req[r].pc = "gate_resume"
  /\ req[r].kind = "verify"
  /\ GateVerdict(r) = "pass"
  /\ \E session_id \in 0..MaxSessions, user_rotation \in UserRotations :
       LET q == [Done("verify") EXCEPT !.gate = "pass", !.sid = session_id]
       IN
       IF ~(session_id # 0 /\ CacheHit(sessionCache, session_id))
       THEN /\ sessionCache' = CacheAfterGet(sessionCache, session_id)
            /\ req' = Ends(r, [q EXCEPT !.status = 400,
                                        !.msg = "InvalidOrExpiredSession",
                                        !.expired =
                                           CacheExpired(sessionCache, session_id)])
            /\ UNCHANGED <<passTokenCache, nextToken, found>>
       ELSE
         LET targetRotation == sessionCache[session_id].v
             angleDegrees == AngleTo(user_rotation, targetRotation)
             passToken == nextToken + 1
         IN  /\ sessionCache' = IF user_rotation = NoRotation THEN sessionCache
                                 ELSE BurnSession(sessionCache, session_id)
             /\ found' = [found EXCEPT ![session_id] = Bump(@)]
             /\ IF user_rotation = NoRotation
                THEN \* user_rotation.x throws a TypeError: caught, 500
                     /\ req' = Ends(r, [q EXCEPT !.found = TRUE, !.status = 500,
                                                 !.msg = "Internal"])
                     /\ UNCHANGED <<passTokenCache, nextToken>>
                ELSE IF WithinTolerance(angleDegrees)
                THEN /\ nextToken' = passToken
                     /\ passTokenCache' =
                          CacheSet(passTokenCache, passToken,
                                   [session_id |-> session_id, verified_at |-> now,
                                    error_angle |-> angleDegrees], PassTokenTTL)
                     /\ req' = Ends(r, [q EXCEPT !.found = TRUE, !.status = 200,
                                                 !.ok = TRUE, !.token = passToken,
                                                 !.angle = angleDegrees])
                ELSE /\ req' = Ends(r, [q EXCEPT !.found = TRUE, !.status = 200,
                                                 !.angle = angleDegrees])
                     /\ UNCHANGED <<passTokenCache, nextToken>>
  /\ UNCHANGED <<sessionStore, nextSession, redeemed, db, env>>

\* Step 4 for /verify in v2: the handler has no await and runs to its end in
\* the segment of the gate's resumption. The body's session_id (0: empty) and
\* user_rotation are read here.
GatePassVerify(r) ==
  /\ build = "v2"
  /\ req[r].pc = "gate_resume"
  /\ req[r].kind = "verify"
  /\ GateVerdict(r) = "pass"
  /\ \E session_id \in 0..MaxSessions, user_rotation \in UserRotations :
       LET q == [Done("verify") EXCEPT !.gate = "pass", !.sid = session_id]
       IN
       IF ~(session_id # 0 /\ CacheHit(sessionCache, session_id))
       THEN /\ sessionCache' = CacheAfterGet(sessionCache, session_id)
            /\ req' = Ends(r, [q EXCEPT !.status = 400,
                                        !.msg = "InvalidOrExpiredSession",
                                        !.expired =
                                           CacheExpired(sessionCache, session_id)])
            /\ UNCHANGED <<passTokenCache, nextToken, found>>
       ELSE
         LET targetRotation == sessionCache[session_id].v
             angleDegrees == AngleTo(user_rotation, targetRotation)
             passToken == nextToken + 1
         IN  /\ sessionCache' = BurnSession(sessionCache, session_id)
             /\ found' = [found EXCEPT ![session_id] = Bump(@)]
             /\ IF user_rotation = NoRotation
                THEN \* user_rotation.x throws a TypeError: caught, 500
                     /\ req' = Ends(r, [q EXCEPT !.found = TRUE, !.status = 500,
                                                 !.msg = "Internal"])
                     /\ UNCHANGED <<passTokenCache, nextToken>>
                ELSE IF WithinTolerance(angleDegrees)
                THEN /\ nextToken' = passToken
                     /\ passTokenCache' =
                          CacheSet(passTokenCache, passToken,
                                   [session_id |-> session_id, verified_at |-> now,
                                    error_angle |-> angleDegrees], PassTokenTTL)
                     /\ req' = Ends(r, [q EXCEPT !.found = TRUE, !.status = 200,
                                                 !.ok = TRUE, !.token = passToken,
                                                 !.angle = angleDegrees])
                ELSE /\ req' = Ends(r, [q EXCEPT !.found = TRUE, !.status = 200,
                                                 !.angle = angleDegrees])
                     /\ UNCHANGED <<passTokenCache, nextToken>>
  /\ UNCHANGED <<sessionStore, nextSession, redeemed, db, env>>

\* /verify in v1 (index.js): the session is deleted only after a success.
GatePassVerifyV1(r) ==
  /\ build = "v1"
  /\ req[r].pc = "gate_resume"
  /\ req[r].kind = "verify"
  /\ GateVerdict(r) = "pass"
  /\ \E session_id \in 0..MaxSessions, user_rotation \in UserRotations :
       LET q == [Done("verify") EXCEPT !.gate = "pass", !.sid = session_id]
       IN
       IF session_id = 0 \/ session_id \notin DOMAIN sessionStore
       THEN /\ req' = Ends(r, [q EXCEPT !.status = 400, !.msg = "InvalidSession"])
            /\ UNCHANGED <<sessionStore, found>>
       ELSE
         LET targetRotation == sessionStore[session_id]
             angleDegrees == AngleTo(user_rotation, targetRotation)
         IN  /\ found' = [found EXCEPT ![session_id] = Bump(@)]
             /\ IF user_rotation = NoRotation
                THEN /\ req' = Ends(r, [q EXCEPT !.found = TRUE, !.status = 500,
                                                 !.msg = "Internal"])
                     /\ UNCHANGED sessionStore
                ELSE IF WithinToleranceV1(angleDegrees)
                THEN /\ req' = Ends(r, [q EXCEPT !.found = TRUE, !.status = 200,
                                                 !.ok = TRUE, !.angle = angleDegrees])
                     /\ sessionStore' = CacheDel(sessionStore, session_id)
                ELSE /\ req' = Ends(r, [q EXCEPT !.found = TRUE, !.status = 200,
                                                 !.angle = angleDegrees])
                     /\ UNCHANGED sessionStore
  /\ UNCHANGED <<sessionCache, passTokenCache, nextSession, nextToken, redeemed,
                 db, env>>

\* ------------------------------------------------------------- siteverify
\* Faulty variant of step 4 of siteverify: the token stays in the cache.
BurnToken_Keep(cache, pass_token) == cache

\* Step 4 of siteverify: the token cache after a lookup that found the token.
BurnToken(cache, pass_token) == CacheDel(cache, pass_token)

\* Faulty variant of siteverify: the token is looked up, and consumed, before
\* the secret_key is checked.
SiteverifyResume_TokenFirst(r) ==
  /\ req[r].pc = "sv_query"
  /\ \E secret_key \in Keys \ {0}, pass_token \in TokenIds :
       LET q == [Done("siteverify") EXCEPT !.secret = secret_key,
                                           !.token = pass_token]
           hit == CacheHit(passTokenCache, pass_token)
       IN  /\ passTokenCache' = IF hit THEN BurnToken(passTokenCache, pass_token)
                                ELSE CacheAfterGet(passTokenCache, pass_token)
           /\ IF ~hit
              THEN /\ req' = Ends(r, [q EXCEPT !.status = 200,
                                               !.msg = "ExpiredOrUnknownToken"])
                   /\ UNCHANGED redeemed
              ELSE IF lookupBySecretKey(secret_key) = 0
              THEN /\ req' = Ends(r, [q EXCEPT !.status = 401,
                                               !.msg = "InvalidSecretKey"])
                   /\ UNCHANGED redeemed
              ELSE /\ redeemed' = [redeemed EXCEPT ![pass_token] = Bump(@)]
                   /\ req' = Ends(r, [q EXCEPT !.status = 200, !.ok = TRUE])
  /\ UNCHANGED <<sessionCache, sessionStore, nextSession, nextToken, found, db, env>>

\* Faulty variant of siteverify: a token is redeemed only for a tenant that
\* has issued a challenge.
SiteverifyResume_TenantBound(r) ==
  /\ req[r].pc = "sv_query"
  /\ \E secret_key \in Keys \ {0}, pass_token \in TokenIds :
       LET q == [Done("siteverify") EXCEPT !.apiKey = req[r].apiKey,
                   !.secret = secret_key, !.token = pass_token]
           c == lookupBySecretKey(secret_key)
       IN  IF c = 0
           THEN /\ req' = Ends(r, [q EXCEPT !.status = 401,
                                            !.msg = "InvalidSecretKey"])
                /\ UNCHANGED <<passTokenCache, redeemed>>
           ELSE IF CacheHit(passTokenCache, pass_token) /\ commits[c] >= 1
           THEN /\ passTokenCache' = BurnToken(passTokenCache, pass_token)
                /\ redeemed' = [redeemed EXCEPT ![pass_token] = Bump(@)]
                /\ req' = Ends(r, [q EXCEPT !.status = 200, !.ok = TRUE,
                             !.angle = passTokenCache[pass_token].v.error_angle])
           ELSE /\ passTokenCache' = CacheAfterGet(passTokenCache, pass_token)
                /\ req' = Ends(r, [q EXCEPT !.status = 200,
                             !.msg = "ExpiredOrUnknownToken"])
                /\ UNCHANGED redeemed
  /\ UNCHANGED <<sessionCache, sessionStore, nextSession, nextToken, found, db, env>>

\* The secret_key query returns (the keys never change, so the moment the
\* database ran it does not matter) and the handler runs to its end. The
\* values of secret_key and pass_token are read here.
SiteverifyResume(r) ==
  /\ req[r].pc = "sv_query"
  /\ \/ /\ req' = Ends(r, [Done("siteverify") EXCEPT !.apiKey = req[r].apiKey,
                                  !.status = 500, !.msg = "Internal"])
        /\ UNCHANGED <<passTokenCache, redeemed>>
     \/ \E secret_key \in Keys \ {0}, pass_token \in TokenIds :
          LET q == [Done("siteverify") EXCEPT !.apiKey = req[r].apiKey,
                      !.secret = secret_key, !.token = pass_token]
          IN  IF lookupBySecretKey(secret_key) = 0
              THEN /\ req' = Ends(r, [q EXCEPT !.status = 401,
                                               !.msg = "InvalidSecretKey"])
                   /\ UNCHANGED <<passTokenCache, redeemed>>
              ELSE IF CacheHit(passTokenCache, pass_token)
              THEN /\ passTokenCache' = BurnToken(passTokenCache, pass_token)
                   /\ redeemed' = [redeemed EXCEPT ![pass_token] = Bump(@)]
                   /\ req' = Ends(r, [q EXCEPT !.status = 200, !.ok = TRUE,
                                !.angle = passTokenCache[pass_token].v.error_angle])
              ELSE /\ passTokenCache' = CacheAfterGet(passTokenCache, pass_token)
                   /\ req' = Ends(r, [q EXCEPT !.status = 200,
                                !.msg = "ExpiredOrUnknownToken",
                                !.expired = CacheExpired(passTokenCache, pass_token)])
                   /\ UNCHANGED redeemed
  /\ UNCHANGED <<sessionCache, sessionStore, nextSession, nextToken, found, db, env>>

\* ------------------------------------------------- the clock and the sweeps
\* Only the caches read the clock.
Tick ==
  /\ build = "v2"
  /\ now + TickSeconds <= MaxTicks * TickSeconds
  /\ now' = now + TickSeconds
  /\ UNCHANGED <<build, models, usage0, store, db, req>>

\* The caches' periodic check (checkperiod) deletes the expired entries.
SweepSessions ==
  /\ \E k \in DOMAIN sessionCache : CacheExpired(sessionCache, k)
  /\ sessionCache' = CacheAfterCheck(sessionCache)
  /\ UNCHANGED <<passTokenCache, sessionStore, nextSession, nextToken, found,
                 redeemed, db, env, req>>

SweepTokens ==
  /\ \E k \in DOMAIN passTokenCache : CacheExpired(passTokenCache, k)
  /\ passTokenCache' = CacheAfterCheck(passTokenCache)
  /\ UNCHANGED <<sessionCache, sessionStore, nextSession, nextToken, found,
                 redeemed, db, env, req>>

\* -------------------------------------------------------------- the system
Next ==
  \/ \E r \in Slots : ReceiveGated(r)
  \/ \E r \in Slots : ReceiveSiteverify(r)
  \/ \E r \in Slots : GateQuery(r)
  \/ \E r \in Slots : GateReject(r)
  \/ \E r \in Slots : GatePassCreate(r)
  \/ \E r \in Slots : GatePassVerify(r)
  \/ \E r \in Slots : GatePassVerifyV1(r)
  \/ \E r \in Slots : CreateConnect(r)
  \/ \E r \in Slots : CreateBegin(r)
  \/ \E r \in Slots : CreateSelect(r)
  \/ \E r \in Slots : CreateUpdate(r)
  \/ \E r \in Slots : CreateCommit(r)
  \/ \E r \in Slots : CreateRollback(r)
  \/ \E r \in Slots : SiteverifyResume(r)
  \/ Tick
  \/ SweepSessions
  \/ SweepTokens

Spec == Init /\ [][Next]_vars

\* A request in flight goes on: the event loop resumes every handler whose
\* await has settled.
Resume(r) ==
  \/ GateQuery(r)
  \/ GateReject(r)
  \/ GatePassCreate(r)
  \/ GatePassVerify(r)
  \/ GatePassVerifyV1(r)
  \/ CreateConnect(r)
  \/ CreateBegin(r)
  \/ CreateSelect(r)
  \/ CreateUpdate(r)
  \/ CreateCommit(r)
  \/ CreateRollback(r)
  \/ SiteverifyResume(r)

\* The server under fair scheduling: time passes, the caches' timers fire and
\* requests in flight go on. Whether requests arrive is up to the clients.
FairSpec ==
  /\ Spec
  /\ WF_vars(Tick)
  /\ WF_vars(SweepSessions)
  /\ WF_vars(SweepTokens)
  /\ \A r \in Slots : WF_vars(Resume(r))

\* ================================================================ properties
\* The steps the properties speak of, as actions of slot r.
\* The gate's segment after its query: it rejects, or hands over to the handler.
GateStep(r) == req[r].pc = "gate_resume" /\ req'[r].pc # "gate_resume"

\* The verify handler ran (the gate passed the request on).
VerifyStep(r) ==
  /\ req[r].pc = "gate_resume"
  /\ req[r].kind = "verify"
  /\ req'[r].pc = "done"
  /\ req'[r].gate = "pass"

\* The siteverify handler's segment after the secret_key query.
SiteverifyStep(r) == req[r].pc = "sv_query" /\ req'[r].pc = "done"

\* Slot r holds the latest response, to a request of this route.
Answered(r, kind) == req[r].pc = "done" /\ req[r].kind = kind

\* ------------------------------------------------------------------------ C1
\* C1 (part_000): over all interleavings of verify requests, a session is
\* found by at most one of them: a verify whose session_id was found before
\* does not find it and is answered 400 InvalidOrExpiredSession with no token,
\* and a verify that finds a session leaves it absent from the session cache.
C1_OneVerifyFindsSession ==
  [][build = "v2" =>
       \A r \in Slots : VerifyStep(r) =>
         LET s == req'[r].sid
         IN  /\ (s \in SessionIds /\ found[s] >= 1) =>
                  /\ ~req'[r].found
                  /\ req'[r].status = 400
                  /\ req'[r].msg = "InvalidOrExpiredSession"
                  /\ ~req'[r].ok
                  /\ req'[r].token = 0
             /\ req'[r].found =>
                  /\ found'[s] = 1
                  /\ s \notin DOMAIN sessionCache'
             /\ ~req'[r].found => req'[r].status = 400]_vars

\* The latest response is the 400 to a verify whose session another verify
\* had found, with nothing expired.
C1_Witness ==
  /\ build = "v2"
  /\ \E r \in Slots :
       /\ Answered(r, "verify")
       /\ req[r].sid \in SessionIds
       /\ found[req[r].sid] = 1
       /\ req[r].status = 400
       /\ ~req[r].expired
       /\ now = 0

\* ------------------------------------------------------------------------ C2
\* C2 (part_000 and index.js): after a verify that found its session and
\* failed the tolerance comparison, the session is absent from the store.
C2_FailedVerifyBurnsSession ==
  \A r \in Slots :
    (Answered(r, "verify") /\ req[r].found /\ req[r].status = 200 /\ ~req[r].ok) =>
      /\ req[r].sid \notin DOMAIN sessionCache
      /\ req[r].sid \notin DOMAIN sessionStore

\* ------------------------------------------------------------------------ C3
\* C3: a siteverify with a valid secret_key answers success=true exactly when
\* its token is in the token cache, unexpired, at its lookup; then no
\* siteverify had redeemed the token before and the token leaves the cache, so
\* every later lookup of it, by requests suspended on the secret_key query
\* included, answers success=false (ExpiredOrUnknownToken).
C3_TokenRedeemedOnce ==
  [][\A r \in Slots :
       (SiteverifyStep(r) /\ req'[r].secret \in Tenants /\ req'[r].status # 500) =>
         LET k == req'[r].token
         IN  /\ req'[r].ok <=>
                  (k \in DOMAIN passTokenCache
                     /\ now <= passTokenCache[k].c + PassTokenTTL)
             /\ req'[r].ok =>
                  /\ redeemed[k] = 0
                  /\ redeemed'[k] = 1
                  /\ k \notin DOMAIN passTokenCache'
             /\ ~req'[r].ok =>
                  /\ req'[r].status = 200
                  /\ req'[r].msg = "ExpiredOrUnknownToken"
                  /\ redeemed' = redeemed]_vars

\* The latest response is success=false to a siteverify, with a valid
\* secret_key, for a token that another siteverify redeemed, the clock not
\* having moved.
C3_Witness ==
  \E r \in Slots :
    /\ Answered(r, "siteverify")
    /\ req[r].secret \in Tenants
    /\ req[r].status = 200
    /\ ~req[r].ok
    /\ req[r].token \in TokenIds
    /\ redeemed[req[r].token] = 1
    /\ now = 0

\* ------------------------------------------------------------------------ C4
\* C4 (part_000): a key is added to the pass-token cache only in a step of a
\* verify that found its session and measured an angle strictly below 45
\* degrees, and it is the token that verify returns; a verify that found no
\* session, or measured 45 degrees or more, or failed, adds no token and
\* returns none.
C4_TokenOnlyFromPassingVerify ==
  [][/\ \A k \in DOMAIN passTokenCache' \ DOMAIN passTokenCache :
          \E r \in Slots :
            /\ VerifyStep(r)
            /\ req'[r].found
            /\ req'[r].sid \in DOMAIN sessionCache
            /\ req'[r].angle >= 0
            /\ req'[r].angle < 45
            /\ req'[r].status = 200
            /\ req'[r].ok
            /\ req'[r].token = k
            /\ passTokenCache'[k].v.session_id = req'[r].sid
            /\ passTokenCache'[k].v.error_angle = req'[r].angle
     /\ \A r \in Slots :
          (VerifyStep(r) /\ build = "v2"
             /\ (~req'[r].found \/ req'[r].angle >= 45 \/ req'[r].status # 200)) =>
            /\ DOMAIN passTokenCache' \subseteq DOMAIN passTokenCache
            /\ req'[r].token = 0
            /\ ~req'[r].ok]_vars

\* The latest response carries a pass token, which is in the token cache.
C4_Witness ==
  \E r \in Slots :
    /\ Answered(r, "verify")
    /\ req[r].ok
    /\ req[r].token \in DOMAIN passTokenCache
    /\ req[r].angle < 45

\* ------------------------------------------------------------------------ C5
\* C5 (both servers): the gate rejects with the reason of the first failing
\* check, in the order missing key, unknown key, origin outside the tenant's
\* allow-list, free-plan quota reached; an origin outside the allow-list is
\* OriginNotAllowed whatever the plan and the usage read; and the handler is
\* reached exactly when the four checks pass.
C5_GateOrder ==
  [][\A r \in Slots :
       /\ (IsFree(r) /\ req'[r].pc = "done" /\ req'[r] # req[r]
             /\ req'[r].kind \in {"create", "verify"}) =>
            (req'[r].gate = "MissingApiKey" /\ req'[r].status = 401)
       /\ GateStep(r) =>
            LET known == req[r].apiKey \in Tenants
                c == req[r].apiKey
                originOk == req[r].origin \in allowed_domain(c)
                quotaOk == ~(plan(c) = "free" /\ req[r].seen >= FREE_TIER_QUOTA)
                rejected(reason, status) ==
                  /\ req'[r].pc = "done"
                  /\ req'[r].gate = reason
                  /\ req'[r].status = status
            IN  /\ ~known => rejected("InvalidApiKey", 401)
                /\ (known /\ ~originOk) => rejected("OriginNotAllowed", 401)
                /\ (known /\ originOk /\ ~quotaOk) => rejected("QuotaExceeded", 429)
                /\ (known /\ originOk /\ quotaOk) =>
                     /\ req'[r].gate = "pass"
                     /\ req'[r].pc = IF req[r].kind = "create" THEN "connect"
                                                               ELSE "done"
       /\ (req'[r].gate = "pass" /\ req[r].gate # "pass") => GateStep(r)]_vars

\* The latest response is OriginNotAllowed to a request of the free tenant
\* whose usage, as the gate read it, had reached the quota.
C5_Witness ==
  \E r \in Slots :
    /\ req[r].pc = "done"
    /\ req[r].gate = "OriginNotAllowed"
    /\ req[r].apiKey = 1
    /\ plan(1) = "free"
    /\ req[r].seen >= FREE_TIER_QUOTA
    /\ req[r].origin \notin allowed_domain(1)

\* ------------------------------------------------------------------------ C6
\* C6 (both servers): for a known key and an allowed origin, a free-plan
\* request whose usage_count, as the gate read it, is FREE_TIER_QUOTA or more
\* ends in that step with 429 QuotaExceeded, no session stored and usage_count
\* unchanged; one that read less (FREE_TIER_QUOTA - 1 included) passes; a
\* request of another plan passes whatever the usage; and 429 is answered to
\* nothing else.
C6_FreeQuota ==
  [][\A r \in Slots :
       /\ (GateStep(r) /\ req[r].apiKey \in Tenants
             /\ req[r].origin \in allowed_domain(req[r].apiKey)) =>
            LET c == req[r].apiKey
            IN  /\ (plan(c) = "free" /\ req[r].seen >= FREE_TIER_QUOTA) =>
                     /\ req'[r].pc = "done"
                     /\ req'[r].status = 429
                     /\ req'[r].gate = "QuotaExceeded"
                     /\ UNCHANGED <<sessionCache, sessionStore, nextSession,
                                    usage_count, rowLock>>
                /\ (plan(c) = "free" /\ req[r].seen < FREE_TIER_QUOTA) =>
                     req'[r].gate = "pass"
                /\ plan(c) # "free" => req'[r].gate = "pass"
       /\ (req'[r].status = 429 /\ req[r].status # 429) =>
            /\ GateStep(r)
            /\ plan(req[r].apiKey) = "free"
            /\ req[r].seen >= FREE_TIER_QUOTA]_vars

\* The latest response is 429 to a create of the free tenant, from its allowed
\* origin, that read usage_count = FREE_TIER_QUOTA exactly.
C6_Witness ==
  \E r \in Slots :
    /\ Answered(r, "create")
    /\ req[r].status = 429
    /\ req[r].apiKey = 1
    /\ req[r].origin \in allowed_domain(1)
    /\ req[r].seen = FREE_TIER_QUOTA
    /\ usage_count[1] = FREE_TIER_QUOTA

\* ------------------------------------------------------------------------ C7
\* C7 (both servers): the usage_count of a free-plan tenant never exceeds
\* FREE_TIER_QUOTA.
C7_QuotaNeverExceeded ==
  \A t \in Tenants : plan(t) = "free" => usage_count[t] <= FREE_TIER_QUOTA

\* ------------------------------------------------------------------------ C8
\* C8 (both servers): in every step usage_count is its initial value plus the
\* number of create transactions committed for the tenant; it never
\* decreases; and it changes, by one, only in the COMMIT step of a create of
\* that tenant.
C8_UsageExact ==
  [][\A t \in Tenants :
       /\ usage_count'[t] = usage0[t] + commits'[t]
       /\ usage_count'[t] >= usage_count[t]
       /\ usage_count'[t] # usage_count[t] =>
            /\ usage_count'[t] = usage_count[t] + 1
            /\ \E r \in Slots :
                 /\ req[r].kind = "create"
                 /\ req[r].pc = "commit"
                 /\ req[r].row = t
                 /\ req'[r].status = 201]_vars

\* Two creates of the same tenant were in their transactions at once (the
\* second waiting for the row) and both have committed.
C8_Witness ==
  /\ commits[1] = 2
  /\ usage_count[1] = usage0[1] + 2

\* ------------------------------------------------------------------------ C9
\* C9 (both servers): a 201 response carries a session id and belongs to a
\* create whose transaction has committed, so the tenant's usage_count is
\* above its initial value by the committed creates, this one included.
C9_CreatedImpliesCommitted ==
  \A r \in Slots :
    (req[r].pc = "done" /\ req[r].status = 201) =>
      /\ req[r].kind = "create"
      /\ req[r].sid \in SessionIds
      /\ req[r].tx = "committed"
      /\ commits[req[r].row] >= 1
      /\ usage_count[req[r].row] >= usage0[req[r].row] + 1

\* The latest response is a 201 with a session id.
C9_Witness ==
  \E r \in Slots :
    /\ Answered(r, "create")
    /\ req[r].status = 201
    /\ req[r].sid \in SessionIds
    /\ usage_count[req[r].row] = usage0[req[r].row] + 1

\* ----------------------------------------------------------------------- C10
\* C10 (part_000): a session still in the session cache more than 300 seconds
\* after create stored it is answered like an id never issued (400
\* InvalidOrExpiredSession, not found, no token minted), and a token still in
\* the token cache more than 180 seconds after verify stored it is answered
\* success=false (ExpiredOrUnknownToken), whether or not the sweep has run.
C10_ExpiredIsUnknown ==
  [][\A r \in Slots :
       /\ (VerifyStep(r) /\ build = "v2"
             /\ req'[r].sid \in DOMAIN sessionCache
             /\ sessionCache[req'[r].sid].c + SessionTTL < now) =>
            /\ req'[r] = [Done("verify") EXCEPT
                            !.gate = "pass", !.sid = req'[r].sid, !.status = 400,
                            !.msg = "InvalidOrExpiredSession", !.expired = TRUE]
            /\ passTokenCache' = passTokenCache
            /\ nextToken' = nextToken
            /\ found' = found
       /\ (SiteverifyStep(r) /\ req'[r].secret \in Tenants /\ req'[r].status # 500
             /\ req'[r].token \in DOMAIN passTokenCache
             /\ passTokenCache[req'[r].token].c + PassTokenTTL < now) =>
            /\ ~req'[r].ok
            /\ req'[r].status = 200
            /\ req'[r].msg = "ExpiredOrUnknownToken"
            /\ redeemed' = redeemed]_vars

\* The latest response is the 400 to a verify whose session was in the cache,
\* expired, and that no verify had found.
C10_Witness ==
  \E r \in Slots :
    /\ Answered(r, "verify")
    /\ req[r].expired
    /\ req[r].status = 400
    /\ found[req[r].sid] = 0
    /\ now > SessionTTL

\* ----------------------------------------------------------------------- C11
\* C11: a siteverify whose secret_key matches no tenant is answered 401
\* InvalidSecretKey, success=false, whatever its pass_token is, a token live in
\* the token cache included; the token cache is not read: it is unchanged and
\* nothing is redeemed.
C11_InvalidSecretFirst ==
  [][\A r \in Slots :
       (SiteverifyStep(r) /\ req'[r].status # 500 /\ req'[r].secret \notin Tenants) =>
         /\ req'[r].status = 401
         /\ req'[r].msg = "InvalidSecretKey"
         /\ ~req'[r].ok
         /\ passTokenCache' = passTokenCache
         /\ redeemed' = redeemed]_vars

\* The latest response is the 401 to a siteverify that named a token live in
\* the token cache.
C11_Witness ==
  \E r \in Slots :
    /\ Answered(r, "siteverify")
    /\ req[r].status = 401
    /\ req[r].secret \notin Tenants
    /\ CacheHit(passTokenCache, req[r].token)

\* ----------------------------------------------------------------------- C12
\* C12 (part_000): siteverify never gets a verdict of the gate, with or without
\* an X-API-Key header: with both parameters present it goes on to the
\* secret_key query, and with a valid secret_key and a live token it is
\* answered success=true whatever the tenants' plans and usage are; create and
\* verify reach their handlers only with the gate's "pass".
C12_SiteverifyNotGated ==
  [][\A r \in Slots :
       /\ req'[r].kind = "siteverify" =>
            /\ req'[r].gate = ""
            /\ req'[r].status # 429
       /\ (SiteverifyStep(r) /\ req'[r].status # 500 /\ req'[r].secret \in Tenants
             /\ CacheHit(passTokenCache, req'[r].token)) =>
            /\ req'[r].ok
            /\ req'[r].status = 200
            /\ req'[r].apiKey = req[r].apiKey
       /\ (req'[r].kind \in {"create", "verify"}
             /\ req'[r].pc \notin {"gate_query", "gate_resume", "done"}) =>
            req'[r].gate = "pass"
       /\ (req'[r].kind \in {"create", "verify"} /\ req'[r].pc = "done") =>
            req'[r].gate # ""]_vars

\* The latest response is success=true to a siteverify sent without an API
\* key, with the secret_key of the free tenant, whose usage has reached the
\* quota.
C12_Witness ==
  \E r \in Slots :
    /\ Answered(r, "siteverify")
    /\ req[r].ok
    /\ req[r].apiKey = 0
    /\ req[r].secret = 1
    /\ plan(1) = "free"
    /\ usage_count[1] >= FREE_TIER_QUOTA

\* ----------------------------------------------------------------------- C13
\* C13 (part_000): a verify that finds its session and then fails (500: the
\* body has no user_rotation) leaves the session out of the session cache,
\* the token cache unchanged and no token in the response.
C13_BurnSurvivesFailure ==
  [][\A r \in Slots :
       (VerifyStep(r) /\ build = "v2" /\ req'[r].found /\ req'[r].status = 500) =>
         /\ req'[r].sid \in DOMAIN sessionCache
         /\ req'[r].sid \notin DOMAIN sessionCache'
         /\ passTokenCache' = passTokenCache
         /\ nextToken' = nextToken
         /\ req'[r].token = 0
         /\ ~req'[r].ok]_vars

\* The latest response is the 500 to a verify that had found its session,
\* and the session is gone.
C13_Witness ==
  /\ build = "v2"
  /\ \E r \in Slots :
       /\ Answered(r, "verify")
       /\ req[r].found
       /\ req[r].status = 500
       /\ req[r].sid \notin DOMAIN sessionCache
       /\ passTokenCache = EmptyCache

\* ----------------------------------------------------------------------- C14
\* C14: when the UPDATE or COMMIT of a create fails, after the session was
\* stored, the request ends with usage_count unchanged, with the error
\* response, 500, carrying no session id, and with the session still stored.
C14_FailedCreateAnswersError ==
  [][\A r \in Slots :
       (build = "v2" /\ req[r].pc = "rollback" /\ req'[r].pc = "done"
          /\ req[r].sid \in SessionIds) =>
         /\ UNCHANGED <<usage_count, commits, sessionCache, sessionStore>>
         /\ req'[r].status = 500
         /\ req'[r].sid = 0]_vars

\* C14, the part on the state: a create that fails changes nothing but,
\* possibly, the session store.
\* With an empty catalog no session is ever stored. A failure at the models
\* query stores no session; a failure of the UPDATE or of COMMIT, which come
\* after the session was stored, and the catch block that follows, leave
\* usage_count and the session stores as they are (the session is not
\* deleted); the request's response is never a 201 and carries no session id,
\* and it is the 500 of the catch block whenever ROLLBACK succeeds.
C14_FailedCreateKeepsState ==
  [][/\ models = 0 =>
          /\ nextSession' = 0
          /\ sessionCache' = EmptyCache
          /\ sessionStore' = EmptyCache
     /\ \A r \in Slots :
          /\ (req[r].pc \in {"begin", "select", "update", "commit"}
                /\ req'[r].pc = "rollback") =>
               /\ UNCHANGED <<usage_count, commits, sessionCache, sessionStore,
                              nextSession>>
               /\ req[r].pc \in {"update", "commit"} =>
                    req[r].sid \in SessionIds
          /\ (req[r].pc = "rollback" /\ req'[r].pc = "done") =>
               /\ UNCHANGED <<usage_count, commits, sessionCache, sessionStore,
                              nextSession>>
               /\ req'[r].status \in {500, 0}
               /\ req'[r].msg = "Create" => req'[r].status = 500
               /\ req'[r].sid = 0
               /\ rowLock'[req[r].row] # r]_vars

\* C14, the case reached: the latest response is the 500 to a create whose
\* transaction was rolled back; the one session ever stored is still in the store, no create is in
\* flight, and no usage was counted.
C14_SessionLeftBehind ==
  \E r \in Slots :
    /\ Answered(r, "create")
    /\ req[r].status = 500
    /\ req[r].msg = "Create"
    /\ req[r].tx = "aborted"
    /\ nextSession = 1
    /\ 1 \in DOMAIN sessionCache \cup DOMAIN sessionStore
    /\ usage_count = usage0
    /\ \A x \in Slots : req[x].kind = "create" => req[x].pc = "done"

\* ----------------------------------------------------------------------- C15
\* C15: a request that has ended has been answered; one that ended on a
\* failure of the database (in the gate, in create at connect, BEGIN, the
\* models query, UPDATE, COMMIT or ROLLBACK, in siteverify) has been answered
\* 500.
C15_StoreFailureAnswered500 ==
  \A r \in Slots :
    (build = "v2" /\ req[r].pc = "done") =>
      /\ req[r].status # 0
      /\ (req[r].gate = "error" \/ req[r].msg \in {"unhandled", "Create", "Internal"}) =>
           req[r].status = 500

\* ----------------------------------------------------------------------- C16
\* C16, for the Challenge Store of index.js (sessionStore): under fair
\* scheduling every session placed in the store is eventually removed from it.
C16_SessionEventuallyRemoved ==
  \A s \in SessionIds : (s \in DOMAIN sessionStore) ~> (s \notin DOMAIN sessionStore)

\* ----------------------------------------------------------------------- C17
\* C17: the answer of siteverify (the secret_key query not failing) is
\* success=true exactly when the secret_key is some tenant's and the token is
\* in the token cache, unexpired; which tenant's secret_key it is, and under
\* which tenant the token's session was created, makes no difference; the
\* token is consumed.
C17_TokenNotBoundToTenant ==
  [][\A r \in Slots :
       (SiteverifyStep(r) /\ req'[r].status # 500) =>
         LET k == req'[r].token
             live == /\ k \in DOMAIN passTokenCache
                     /\ now <= passTokenCache[k].c + PassTokenTTL
         IN  /\ req'[r].ok <=> (req'[r].secret \in Tenants /\ live)
             /\ req'[r].ok => k \notin DOMAIN passTokenCache']_vars

\* The latest response is success=true to a siteverify with the secret_key
\* of tenant 2, while the only session ever generated belongs to the one
\* create that committed, of tenant 1.
C17_Witness ==
  \E r \in Slots :
    /\ Answered(r, "siteverify")
    /\ req[r].ok
    /\ req[r].secret = 2
    /\ nextSession = 1
    /\ commits[1] = 1
    /\ commits[2] = 0
    /\ req[r].token \notin DOMAIN passTokenCache

\* ----------------------------------------------------------------------- C18
\* C18: the gate reads the tenant's committed usage_count, and a verify of a
\* free-plan tenant (known key, allowed origin) that read FREE_TIER_QUOTA or
\* more ends with 429 QuotaExceeded in the gate, the session stores, the
\* token cache and the lookups' history unchanged; so a verify of a free-plan
\* tenant that reads the session store has read a usage below the quota.
C18_QuotaBlocksVerify ==
  [][\A r \in Slots :
       /\ (req[r].pc = "gate_query" /\ req'[r].pc = "gate_resume"
             /\ req'[r].row # 0 /\ plan(req'[r].row) = "free") =>
            req'[r].seen = usage_count[req'[r].row]
       /\ (GateStep(r) /\ req[r].kind = "verify" /\ req[r].apiKey \in Tenants
             /\ plan(req[r].apiKey) = "free"
             /\ req[r].origin \in allowed_domain(req[r].apiKey)
             /\ req[r].seen >= FREE_TIER_QUOTA) =>
            /\ req'[r].pc = "done"
            /\ req'[r].status = 429
            /\ req'[r].gate = "QuotaExceeded"
            /\ ~req'[r].found
            /\ UNCHANGED <<sessionCache, sessionStore, passTokenCache, found>>
       /\ (VerifyStep(r) /\ plan(req[r].apiKey) = "free") =>
            req[r].seen < FREE_TIER_QUOTA]_vars

\* The latest response is 429 to a verify of the free tenant, after the one
\* create that raised its usage to the quota; that create's session is in the
\* session cache.
C18_Witness ==
  /\ build = "v2"
  /\ \E r \in Slots :
       /\ Answered(r, "verify")
       /\ req[r].status = 429
       /\ req[r].apiKey = 1
       /\ req[r].seen = FREE_TIER_QUOTA
  /\ usage0[1] = FREE_TIER_QUOTA - 1
  /\ commits = [t \in Tenants |-> IF t = 1 THEN 1 ELSE 0]
  /\ nextSession = 1
  /\ CacheHit(sessionCache, 1)

\* ----------------------------------------------------------------------- C19
\* C19: the step in which a siteverify is rejected, for a missing parameter
\* (400) or for a secret_key of no tenant (401), leaves the token cache and
\* the redemptions unchanged: a token the request named, live before, is live
\* after.
C19_RejectedSiteverifyKeepsTokens ==
  [][\A r \in Slots :
       (req'[r].kind = "siteverify" /\ req'[r].pc = "done" /\ req'[r] # req[r]
          /\ req'[r].status \in {400, 401}) =>
         /\ passTokenCache' = passTokenCache
         /\ redeemed' = redeemed
         /\ \A k \in DOMAIN passTokenCache : redeemed[k] = 0]_vars

\* The latest response is the 400 to a siteverify without secret_key that
\* named a token, which is live in the token cache.
C19_Witness ==
  \E r \in Slots :
    /\ Answered(r, "siteverify")
    /\ req[r].status = 400
    /\ req[r].secret = 0
    /\ req[r].token \in TokenIds
    /\ CacheHit(passTokenCache, req[r].token)

\* ----------------------------------------------------------------------- C20
\* C20 (part_000): no session is found by verify more than once and the
\* tokens ever minted are no more than the sessions found, so no session has
\* two tokens; the tokens in the token cache name distinct sessions; and the
\* session a token in the token cache names was found by a verify and is
\* absent from the session cache.
C20_OneTokenPerSession ==
  build = "v2" =>
    /\ \A s \in SessionIds : found[s] <= 1
    /\ nextToken <= Cardinality({s \in SessionIds : found[s] >= 1})
    /\ \A k \in DOMAIN passTokenCache :
         LET s == passTokenCache[k].v.session_id
         IN  /\ s \in SessionIds
             /\ s <= nextSession
             /\ found[s] = 1
             /\ s \notin DOMAIN sessionCache
    /\ \A k1, k2 \in DOMAIN passTokenCache :
         k1 # k2 => passTokenCache[k1].v.session_id # passTokenCache[k2].v.session_id

\* Two tokens, of two sessions, are in the token cache.
C20_Witness ==
  /\ build = "v2"
  /\ Cardinality(DOMAIN passTokenCache) = 2
  /\ sessionCache = EmptyCache

====
